---------------------------- MODULE Spec2Model ----------------------------
(***************************************************************************)
(* GuardrailRunner (cosmos1/models/guardrail/common/core.py) and the       *)
(* text2world demo driver (cosmos1/models/diffusion/inference/             *)
(* text2world.py) as state machines.                                       *)
(*                                                                         *)
(* A Python str is a sequence of string parts: "" is <<>>, an f-string is  *)
(* the concatenation of its parts, and truthiness of a str is # <<>>.      *)
(* An Optional[list] is a record [isNone, list]; it is falsy when it is    *)
(* None or the empty list.                                                 *)
(***************************************************************************)
EXTENDS Integers, Sequences, FiniteSets, TLC

(* ------------------------------ bounds -------------------------------- *)

\* longest safety_models list of the sequential specification
MaxCheckers == 3
\* longest postprocessors list of the sequential specification
MaxTransformers == 2
\* longest safety_models / postprocessors list when two callers share a runner
MaxShared == 2
\* longest batch of prompt entries read from cfg.batch_input_path
MaxPrompts == 3

\* inputs handed to run_safety_check
Inputs == {"x", "y"}
\* frame buffers handed to postprocess (abstract buffer contents)
Frames == {0, 1}
\* what a call of a checker or transformer can do besides returning
Raise == 2
\* the callers of one runner instance
Threads == {"t1", "t2"}

(* ------------------------- checkers, transformers --------------------- *)

\* ContentSafetyGuardrail subclasses: the class name and the message its
\* is_safe returns as second element of the tuple.
CheckerClasses ==
    { [name |-> "A", message |-> <<"R">>],
      [name |-> "B", message |-> <<"S">>] }

\* what is_safe does on an input: return (True, message), return
\* (False, message) or raise
Verdicts == {"safe", "unsafe", "raise"}

\* a ContentSafetyGuardrail object: its class and its is_safe, input by input
Checkers == [class : CheckerClasses, verdict : [Inputs -> Verdicts]]

\* a PostprocessingGuardrail object: its postprocess, buffer by buffer
\* (a buffer, or Raise when the call raises)
Transformers == [Frames -> Frames \cup {Raise}]

\* the sequences over S of length at most n
SeqUpTo(S, n) == UNION { [1..k -> S] : k \in 0..n }

\* Optional[list[...]]: None or a list
Optional(lists) ==
    { [isNone |-> TRUE, list |-> <<>>] } \cup
    { [isNone |-> FALSE, list |-> l] : l \in lists }

\* the values a str argument of the constructor takes
BlockMsgs == { <<>>, <<"Blocked">> }
SafeMsgs == { <<>>, <<"All good">> }

(* ------------------------------- state -------------------------------- *)

VARIABLES
    safety_models,      \* self.safety_models
    generic_block_msg,  \* self.generic_block_msg
    generic_safe_msg,   \* self.generic_safe_msg
    postprocessors,     \* self.postprocessors
    safe_msg_arg,       \* the generic_safe_msg argument __init__ was given
    threads,            \* the callers that use the runner
    call,               \* per caller: the call it is in, or its outcome
    cfg,                \* demo's argument, the parsed command line
    args_defined,       \* whether the module global `args` is bound (line 163)
    batch_file,         \* what read_prompts_from_file returns
    pipeline,           \* pipeline.generate, prompt by prompt
    pc,                 \* where demo is
    prompts,            \* demo's local `prompts`
    i,                  \* demo's loop index (enumerate, from 0)
    files,              \* the files written, in the order of writing
    criticals           \* the number of log.critical calls

runner == <<safety_models, generic_block_msg, generic_safe_msg, postprocessors,
            safe_msg_arg>>

demo_env == <<cfg, args_defined, batch_file, pipeline>>

demo_vars == <<cfg, args_defined, batch_file, pipeline, pc, prompts, i, files,
               criticals>>

vars == <<safety_models, generic_block_msg, generic_safe_msg, postprocessors,
          safe_msg_arg, threads, call, cfg, args_defined, batch_file, pipeline,
          pc, prompts, i, files, criticals>>

\* a caller that has not called yet
Idle ==
    [ op |-> "none", pc |-> "idle", input |-> "x", arg |-> 0, frames |-> 0,
      i |-> 0, invoked |-> <<>>, ret_safe |-> FALSE, ret_msg |-> <<>> ]

(* ----------------------------- constructor ---------------------------- *)

\* mutant of DefaultSafeMsg: the argument is stored as given
DefaultSafeMsgAsGiven(msg) == msg

\* line 148: generic_safe_msg if generic_safe_msg else "Prompt is safe"
DefaultSafeMsg(msg) == IF msg # <<>> THEN msg ELSE <<"Prompt is safe">>

\* GuardrailRunner.__init__
Construct(models, block_msg, safe_msg, posts) ==
    /\ safety_models = models
    /\ generic_block_msg = block_msg
    /\ generic_safe_msg = DefaultSafeMsg(safe_msg)
    /\ safe_msg_arg = safe_msg
    /\ postprocessors = posts

(* --------------------------- run_safety_check ------------------------- *)

\* `not x` for an Optional[list]
Falsy(opt) == opt.isNone \/ opt.list = <<>>

\* guardrail.is_safe(input) when it returns: (is_safe, message)
is_safe(guardrail, x) ==
    [ safe |-> guardrail.verdict[x] = "safe", message |-> guardrail.class.message ]

\* line 169: the message of a blocked input
BlockedMsg(block_msg, guardrail_name) ==
    IF block_msg # <<>> THEN block_msg ELSE guardrail_name \o <<" blocked input">>

\* lines 162-164: the early return of an unconfigured runner
ReturnSafe(c, safe_msg) ==
    [c EXCEPT !.pc = "returned", !.ret_safe = TRUE, !.ret_msg = safe_msg]

\* mutant of BeginCheck: an unconfigured runner blocks
BeginCheckFailClosed(x, models, safe_msg) ==
    LET c == [Idle EXCEPT !.op = "run_safety_check", !.input = x]
    IN  IF Falsy(models)
        THEN [c EXCEPT !.pc = "returned", !.ret_safe = FALSE, !.ret_msg = safe_msg]
        ELSE [c EXCEPT !.pc = "loop", !.i = 1]

\* lines 151-164: the call, up to the loop
BeginCheck(x, models, safe_msg) ==
    LET c == [Idle EXCEPT !.op = "run_safety_check", !.input = x]
    IN  IF Falsy(models)
        THEN ReturnSafe(c, safe_msg)
        ELSE [c EXCEPT !.pc = "loop", !.i = 1]

CallCheck(t, x) ==
    /\ call[t].pc # "loop"
    /\ call' = [call EXCEPT ![t] = BeginCheck(x, safety_models, generic_safe_msg)]
    /\ UNCHANGED <<runner, threads, demo_vars>>

\* the entry of self.safety_models / self.postprocessors a call has invoked,
\* what it was given and what it did
Invocation(k, given, did) == [index |-> k, input |-> given, verdict |-> did]

\* mutant of CheckIteration: the loop goes on after a failure and reports
\* the last failing checker
CheckIterationLastWins(c, models, block_msg, safe_msg) ==
    LET guardrail == models.list[c.i]
        seen == [c EXCEPT !.invoked =
                    Append(@, Invocation(c.i, c.input, guardrail.verdict[c.input]))]
        r == is_safe(guardrail, c.input)
        noted == IF r.safe THEN seen
                 ELSE [seen EXCEPT !.ret_msg = BlockedMsg(block_msg, r.message)]
    IN  IF guardrail.verdict[c.input] = "raise"
        THEN [seen EXCEPT !.pc = "raised"]
        ELSE IF c.i < Len(models.list)
        THEN [noted EXCEPT !.i = c.i + 1]
        ELSE IF noted.ret_msg # <<>>
        THEN [noted EXCEPT !.pc = "returned", !.ret_safe = FALSE]
        ELSE ReturnSafe(noted, safe_msg)

\* mutant of CheckIteration: the list is walked from its end
CheckIterationReversed(c, models, block_msg, safe_msg) ==
    LET at == Len(models.list) - c.i + 1
        guardrail == models.list[at]
        seen == [c EXCEPT !.invoked =
                    Append(@, Invocation(at, c.input, guardrail.verdict[c.input]))]
        r == is_safe(guardrail, c.input)
    IN  IF guardrail.verdict[c.input] = "raise"
        THEN [seen EXCEPT !.pc = "raised"]
        ELSE IF ~r.safe
        THEN [seen EXCEPT !.pc = "returned", !.ret_safe = FALSE,
                          !.ret_msg = BlockedMsg(block_msg, r.message)]
        ELSE IF c.i = Len(models.list)
        THEN ReturnSafe(seen, safe_msg)
        ELSE [seen EXCEPT !.i = c.i + 1]

\* mutant of CheckIteration: a checker that raises is skipped
CheckIterationSwallows(c, models, block_msg, safe_msg) ==
    LET guardrail == models.list[c.i]
        seen == [c EXCEPT !.invoked =
                    Append(@, Invocation(c.i, c.input, guardrail.verdict[c.input]))]
        r == is_safe(guardrail, c.input)
    IN  IF guardrail.verdict[c.input] = "unsafe"
        THEN [seen EXCEPT !.pc = "returned", !.ret_safe = FALSE,
                          !.ret_msg = BlockedMsg(block_msg, r.message)]
        ELSE IF c.i = Len(models.list)
        THEN ReturnSafe(seen, safe_msg)
        ELSE [seen EXCEPT !.i = c.i + 1]

\* lines 166-172: one iteration of the loop over self.safety_models, and the
\* return that follows the last one
CheckIteration(c, models, block_msg, safe_msg) ==
    LET guardrail == models.list[c.i]
        seen == [c EXCEPT !.invoked =
                    Append(@, Invocation(c.i, c.input, guardrail.verdict[c.input]))]
        r == is_safe(guardrail, c.input)
    IN  IF guardrail.verdict[c.input] = "raise"
        THEN [seen EXCEPT !.pc = "raised"]
        ELSE IF ~r.safe
        THEN [seen EXCEPT !.pc = "returned", !.ret_safe = FALSE,
                          !.ret_msg = BlockedMsg(block_msg, r.message)]
        ELSE IF c.i = Len(models.list)
        THEN ReturnSafe(seen, safe_msg)
        ELSE [seen EXCEPT !.i = c.i + 1]

\* mutant of StepCheck: the loop pops the checkers off self.safety_models
StepCheckPops(t) ==
    /\ call[t].op = "run_safety_check"
    /\ call[t].pc = "loop"
    /\ IF safety_models.list = <<>>
       THEN /\ call' = [call EXCEPT ![t] = ReturnSafe(call[t], generic_safe_msg)]
            /\ UNCHANGED safety_models
       ELSE /\ call' = [call EXCEPT ![t] =
                    CheckIteration([call[t] EXCEPT !.i = 1],
                                   [safety_models EXCEPT !.list = <<Head(@)>>],
                                   generic_block_msg, generic_safe_msg)]
            /\ safety_models' = [safety_models EXCEPT !.list = Tail(@)]
    /\ UNCHANGED <<generic_block_msg, generic_safe_msg, postprocessors,
                   safe_msg_arg, threads, demo_vars>>

StepCheck(t) ==
    /\ call[t].op = "run_safety_check"
    /\ call[t].pc = "loop"
    /\ call' = [call EXCEPT ![t] =
            CheckIteration(call[t], safety_models, generic_block_msg, generic_safe_msg)]
    /\ UNCHANGED <<runner, threads, demo_vars>>

(* ------------------------------ postprocess --------------------------- *)

\* lines 174-185: the call, up to the loop
BeginPost(f, posts) ==
    LET c == [Idle EXCEPT !.op = "postprocess", !.arg = f, !.frames = f]
    IN  IF Falsy(posts)
        THEN [c EXCEPT !.pc = "returned"]
        ELSE [c EXCEPT !.pc = "loop", !.i = 1]

CallPost(t, f) ==
    /\ call[t].pc # "loop"
    /\ call' = [call EXCEPT ![t] = BeginPost(f, postprocessors)]
    /\ UNCHANGED <<runner, threads, demo_vars>>

\* mutant of PostIteration: every postprocessor is given the caller's frames
PostIterationOfArg(c, posts) ==
    LET guardrail == posts.list[c.i]
        out == guardrail[c.arg]
        seen == [c EXCEPT !.invoked = Append(@, Invocation(c.i, c.arg, out))]
    IN  IF out = Raise
        THEN [seen EXCEPT !.pc = "raised"]
        ELSE IF c.i = Len(posts.list)
        THEN [seen EXCEPT !.pc = "returned", !.frames = out]
        ELSE [seen EXCEPT !.frames = out, !.i = c.i + 1]

\* lines 187-191: one iteration of the loop over self.postprocessors, and the
\* return that follows the last one
PostIteration(c, posts) ==
    LET guardrail == posts.list[c.i]
        out == guardrail[c.frames]
        seen == [c EXCEPT !.invoked = Append(@, Invocation(c.i, c.frames, out))]
    IN  IF out = Raise
        THEN [seen EXCEPT !.pc = "raised"]
        ELSE IF c.i = Len(posts.list)
        THEN [seen EXCEPT !.pc = "returned", !.frames = out]
        ELSE [seen EXCEPT !.frames = out, !.i = c.i + 1]

StepPost(t) ==
    /\ call[t].op = "postprocess"
    /\ call[t].pc = "loop"
    /\ call' = [call EXCEPT ![t] = PostIteration(call[t], postprocessors)]
    /\ UNCHANGED <<runner, threads, demo_vars>>

(* --------------------------------- demo ------------------------------- *)

\* the prompt strings of the model
Prompts == {"p", "q"}

\* input_dict.get("prompt", None): None or the prompt
NoPrompt == [isNone |-> TRUE, str |-> <<>>]
Entries == { NoPrompt } \cup { [isNone |-> FALSE, str |-> <<p>>] : p \in Prompts }

\* pipeline.generate(prompt, ...): None when the pipeline's guardrail blocked
\* the prompt, else (video, prompt)
generate(pl, prompt) ==
    IF pl[prompt[1]]
    THEN [isNone |-> FALSE, video |-> <<"video of ">> \o prompt, prompt |-> prompt]
    ELSE [isNone |-> TRUE, video |-> <<>>, prompt |-> <<>>]

\* mutant of SavePath: a batch entry is named by the number of entries saved
\* before it
SavePathByCount(c, k, ext) ==
    IF c.batch_input_path # <<>>
    THEN c.video_save_folder \o <<"/", ToString(Len(files) \div 2), ext>>
    ELSE c.video_save_folder \o <<"/">> \o c.video_save_name \o <<ext>>

\* lines 137-142: os.path.join(cfg.video_save_folder, f"{name}{ext}"), the
\* name being the index in batch mode and cfg.video_save_name otherwise
SavePath(c, k, ext) ==
    IF c.batch_input_path # <<>>
    THEN c.video_save_folder \o <<"/", ToString(k), ext>>
    ELSE c.video_save_folder \o <<"/">> \o c.video_save_name \o <<ext>>

\* lines 90-123: up to the loop. Line 117 reads the module global `args`,
\* which is bound only when the file runs as a script (line 163).
DemoStart ==
    /\ pc = "start"
    /\ IF cfg.batch_input_path # <<>> /\ ~args_defined
       THEN /\ pc' = "raised"
            /\ UNCHANGED <<prompts, i>>
       ELSE /\ prompts' = IF cfg.batch_input_path # <<>>
                          THEN batch_file ELSE <<cfg.prompt>>
            /\ i' = 0
            /\ pc' = IF Len(prompts') = 0 THEN "done" ELSE "loop"
    /\ UNCHANGED <<runner, threads, call, demo_env, files, criticals>>

\* lines 124-159: the loop body for entry i, and the end of the loop after
\* the last entry
DemoIteration ==
    /\ pc = "loop"
    /\ LET current_prompt == prompts[i + 1]
           generated_output == generate(pipeline, current_prompt.str)
       IN  IF current_prompt.isNone
           THEN /\ criticals' = criticals + 1
                /\ UNCHANGED files
           ELSE IF generated_output.isNone
           THEN /\ criticals' = criticals + 1
                /\ UNCHANGED files
           ELSE /\ files' = files \o
                        << [path |-> SavePath(cfg, i, ".mp4"), kind |-> "video",
                            content |-> generated_output.video],
                           [path |-> SavePath(cfg, i, ".txt"), kind |-> "text",
                            content |-> generated_output.prompt] >>
                /\ UNCHANGED criticals
    /\ i' = i + 1
    /\ pc' = IF i + 1 = Len(prompts) THEN "done" ELSE "loop"
    /\ UNCHANGED <<runner, threads, call, demo_env, prompts>>

(* ---------------------------- specifications -------------------------- *)

None == [isNone |-> TRUE, list |-> <<>>]

\* demo is not running
NoDemo ==
    /\ cfg = [batch_input_path |-> <<>>, prompt |-> NoPrompt,
              video_save_folder |-> <<"outputs">>, video_save_name |-> <<"output">>]
    /\ args_defined = FALSE
    /\ batch_file = <<>>
    /\ pipeline = [p \in Prompts |-> FALSE]
    /\ pc = "off"
    /\ prompts = <<>>
    /\ i = 0
    /\ files = <<>>
    /\ criticals = 0

\* one caller of a runner built with any safety_models up to MaxCheckers, or
\* with any postprocessors up to MaxTransformers
Init ==
    /\ \E block_msg \in BlockMsgs, safe_msg \in SafeMsgs :
        \/ \E models \in Optional(SeqUpTo(Checkers, MaxCheckers)) :
                Construct(models, block_msg, safe_msg, None)
        \/ \E posts \in Optional(SeqUpTo(Transformers, MaxTransformers)) :
                Construct(None, block_msg, safe_msg, posts)
    /\ threads = {"t1"}
    /\ call = [t \in Threads |-> Idle]
    /\ NoDemo

Next ==
    \/ \E t \in threads, x \in Inputs : CallCheck(t, x)
    \/ \E t \in threads : StepCheck(t)
    \/ \E t \in threads, f \in Frames : CallPost(t, f)
    \/ \E t \in threads : StepPost(t)

Spec == Init /\ [][Next]_vars

\* two callers of one runner, its lists up to MaxShared
InitShared ==
    /\ \E block_msg \in BlockMsgs, safe_msg \in SafeMsgs :
        \/ \E models \in Optional(SeqUpTo(Checkers, MaxShared)) :
                Construct(models, block_msg, safe_msg, None)
        \/ \E posts \in Optional(SeqUpTo(Transformers, MaxShared)) :
                Construct(None, block_msg, safe_msg, posts)
    /\ threads = Threads
    /\ call = [t \in Threads |-> Idle]
    /\ NoDemo

\* the two callers call with different inputs and different frames
InputOf == [t \in Threads |-> IF t = "t1" THEN "x" ELSE "y"]
FramesOf == [t \in Threads |-> IF t = "t1" THEN 0 ELSE 1]

NextShared ==
    \/ \E t \in threads : CallCheck(t, InputOf[t])
    \/ \E t \in threads : StepCheck(t)
    \/ \E t \in threads : CallPost(t, FramesOf[t])
    \/ \E t \in threads : StepPost(t)

SpecShared == InitShared /\ [][NextShared]_vars

\* demo(cfg), called by the script or by an importing module
InitDemo ==
    /\ Construct(None, <<>>, <<>>, None)
    /\ threads = {}
    /\ call = [t \in Threads |-> Idle]
    /\ \E batch \in BOOLEAN, prompt \in Entries :
        /\ cfg = [batch_input_path |-> IF batch THEN <<"prompts.jsonl">> ELSE <<>>,
                  prompt |-> prompt,
                  video_save_folder |-> <<"outputs">>,
                  video_save_name |-> <<"output">>]
        /\ batch_file \in IF batch THEN SeqUpTo(Entries, MaxPrompts) ELSE {<<>>}
    /\ args_defined \in BOOLEAN
    /\ pipeline \in [Prompts -> BOOLEAN]
    /\ pc = "start"
    /\ prompts = <<>>
    /\ i = 0
    /\ files = <<>>
    /\ criticals = 0

NextDemo == DemoStart \/ DemoIteration

SpecDemo == InitDemo /\ [][NextDemo]_vars

(* -------------------------------- claims ------------------------------ *)

Min(S) == CHOOSE m \in S : \A n \in S : m <= n

\* the positions of the checkers of `list` whose is_safe is False on x
Unsafe(list, x) == { k \in 1..Len(list) : list[k].verdict[x] = "unsafe" }

\* the positions of a call's log where a checker reported unsafe
Reported(c) == { k \in DOMAIN c.invoked : c.invoked[k].verdict = "unsafe" }

\* whether a call of either kind has ended
Ended(c) == c.pc \in {"returned", "raised"}

\* s starts with p
IsPrefix(p, s) == Len(p) <= Len(s) /\ SubSeq(s, 1, Len(p)) = p

\* the part w occurs in the string s
HasPart(s, w) == \E k \in DOMAIN s : s[k] = w

\* C1: whenever a checker reports unsafe, run_safety_check returns False at
\* once, the checker that decided is the lowest-index checker whose is_safe is
\* False on the input, and without a generic block message the returned
\* reason starts with that checker's own message; a call that returns on a
\* list holding an unsafe checker never returns True.
C1_FirstFailureWins ==
    \A t \in threads :
        LET c == call[t]
            list == safety_models.list
        IN  c.op = "run_safety_check" =>
            /\ Reported(c) # {} =>
                /\ c.pc = "returned"
                /\ ~c.ret_safe
                /\ c.invoked[Len(c.invoked)].index = Min(Unsafe(list, c.input))
                /\ generic_block_msg = <<>> =>
                     IsPrefix(list[Min(Unsafe(list, c.input))].class.message, c.ret_msg)
            /\ (c.pc = "returned" /\ Unsafe(list, c.input) # {}) =>
                    (~c.ret_safe /\ Reported(c) # {})

\* a call has returned on a list with two checkers of different classes that
\* are both unsafe on the input, with no generic block message
C1_Witness ==
    \E t \in threads :
        LET c == call[t]
            list == safety_models.list
        IN  /\ c.op = "run_safety_check"
            /\ c.pc = "returned"
            /\ generic_block_msg = <<>>
            /\ \E a, b \in Unsafe(list, c.input) :
                    a < b /\ list[a].class # list[b].class

\* C2: the k-th checker a call invokes is the k-th of the configured list, it
\* is given the call's input, no position is invoked twice, and nothing is
\* invoked after a checker that reported unsafe.
C2_InOrderUntilFirstUnsafe ==
    \A t \in threads :
        LET c == call[t]
        IN  c.op = "run_safety_check" =>
            /\ Len(c.invoked) <= Len(safety_models.list)
            /\ \A k \in DOMAIN c.invoked :
                /\ c.invoked[k].index = k
                /\ c.invoked[k].input = c.input
                /\ c.invoked[k].verdict = safety_models.list[k].verdict[c.input]
                /\ k < Len(c.invoked) => c.invoked[k].verdict # "unsafe"

\* [A safe, B unsafe, C safe]: the call has returned and C was not invoked
C2_Witness ==
    \E t \in threads :
        LET c == call[t]
            list == safety_models.list
        IN  /\ c.op = "run_safety_check"
            /\ c.pc = "returned"
            /\ Len(list) = 3
            /\ list[1].verdict[c.input] = "safe"
            /\ list[2].verdict[c.input] = "unsafe"
            /\ list[3].verdict[c.input] = "safe"
            /\ Len(c.invoked) = 2

\* C3: the message of a blocked input is the generic block message when that
\* is non-empty, and otherwise holds both the class name of the checker that
\* blocked and that checker's own message.
C3_BlockedMsgNamesChecker ==
    \A t \in threads :
        LET c == call[t]
        IN  (c.op = "run_safety_check" /\ c.pc = "returned" /\ ~c.ret_safe) =>
            LET guardrail == safety_models.list[c.invoked[Len(c.invoked)].index]
            IN  IF generic_block_msg # <<>>
                THEN c.ret_msg = generic_block_msg
                ELSE /\ HasPart(c.ret_msg, guardrail.class.name)
                     /\ \A k \in DOMAIN guardrail.class.message :
                            HasPart(c.ret_msg, guardrail.class.message[k])

\* C4: a call on a list whose checkers are all safe on the input invokes every
\* one of them and returns (True, m), m being the safe message the
\* constructor was given, or "Prompt is safe" when that was empty.
C4_AllSafeReturnsSafeMsg ==
    \A t \in threads :
        LET c == call[t]
            list == safety_models.list
        IN  ( /\ c.op = "run_safety_check"
              /\ Ended(c)
              /\ \A k \in DOMAIN list : list[k].verdict[c.input] = "safe" ) =>
            /\ c.pc = "returned"
            /\ c.ret_safe
            /\ c.ret_msg = IF safe_msg_arg # <<>> THEN safe_msg_arg
                           ELSE <<"Prompt is safe">>
            /\ Len(c.invoked) = Len(list)

\* a call has returned on two or more checkers, all safe, of a runner built
\* without a safe message
C4_Witness ==
    \E t \in threads :
        LET c == call[t]
            list == safety_models.list
        IN  /\ c.op = "run_safety_check"
            /\ c.pc = "returned"
            /\ Len(list) >= 2
            /\ \A k \in DOMAIN list : list[k].verdict[c.input] = "safe"
            /\ safe_msg_arg = <<>>

\* C5: on a runner whose safety_models is None or empty, every
\* run_safety_check has returned (True, default safe message) as soon as it is
\* called, and has invoked nothing.
C5_UnconfiguredFailsOpen ==
    \A t \in threads :
        LET c == call[t]
        IN  (c.op = "run_safety_check" /\ Falsy(safety_models)) =>
            /\ c.pc = "returned"
            /\ c.ret_safe
            /\ c.ret_msg = generic_safe_msg
            /\ c.invoked = <<>>

\* run_safety_check was called on a runner built with an empty list
C5_Witness ==
    \E t \in threads :
        /\ call[t].op = "run_safety_check"
        /\ ~safety_models.isNone
        /\ safety_models.list = <<>>
        /\ call[t].input = "y"

\* a transformer applied to what the one before it gave
Apply(guardrail, f) == IF f = Raise THEN Raise ELSE guardrail[f]

RECURSIVE Compose(_, _, _)
\* list[k]( ... list[2](list[1](f)) ... )
Compose(list, f, k) == IF k = 0 THEN f ELSE Apply(list[k], Compose(list, f, k - 1))

\* C6: postprocess gives the k-th transformer exactly what the (k-1)-th
\* returned (the first one the caller's frames), applies each once and in
\* order, and returns the last one's output; with no transformers it returns
\* the caller's frames and applies nothing.
C6_PostprocessComposes ==
    \A t \in threads :
        LET c == call[t]
            list == postprocessors.list
        IN  c.op = "postprocess" =>
            /\ \A k \in DOMAIN c.invoked :
                /\ c.invoked[k].index = k
                /\ c.invoked[k].input = Compose(list, c.arg, k - 1)
                /\ c.invoked[k].verdict = Compose(list, c.arg, k)
            /\ c.pc = "returned" =>
                /\ Len(c.invoked) = Len(list)
                /\ c.frames = Compose(list, c.arg, Len(list))
            /\ Falsy(postprocessors) =>
                (c.pc = "returned" /\ c.frames = c.arg /\ c.invoked = <<>>)

\* postprocess has returned on two transformers whose composition in the
\* other order gives another buffer, the second one changing what it is given
C6_Witness ==
    \E t \in threads :
        LET c == call[t]
            list == postprocessors.list
        IN  /\ c.op = "postprocess"
            /\ c.pc = "returned"
            /\ Len(list) = 2
            /\ c.frames # Apply(list[1], Apply(list[2], c.arg))
            /\ c.frames # Apply(list[2], c.arg)

\* what a log entry records when the checker or transformer raised
Raised(c, e) == IF c.op = "postprocess" THEN e.verdict = Raise ELSE e.verdict = "raise"

\* C7: a checker or transformer that raises is the last one its call invokes
\* and the call ends raising, with no verdict and no frames returned; a call
\* raises only then, and in particular never because a checker reported
\* unsafe.
C7_ErrorsPropagate ==
    \A t \in threads :
        LET c == call[t]
        IN  c.op # "none" =>
            /\ \A k \in DOMAIN c.invoked :
                    Raised(c, c.invoked[k]) => (k = Len(c.invoked) /\ c.pc = "raised")
            /\ c.pc = "raised" =>
                /\ c.invoked # <<>>
                /\ Raised(c, c.invoked[Len(c.invoked)])
                /\ ~c.ret_safe
                /\ c.ret_msg = <<>>
            /\ (c.op = "run_safety_check" /\ Reported(c) # {}) => c.pc = "returned"

\* run_safety_check ended raising at a checker that follows a safe one and
\* precedes another
C7_Witness ==
    \E t \in threads :
        LET c == call[t]
        IN  /\ c.op = "run_safety_check"
            /\ c.pc = "raised"
            /\ Len(c.invoked) = 2
            /\ Len(safety_models.list) = 3

RECURSIVE RunCheck(_)
\* run_safety_check run from c to its end with nothing else running
RunCheck(c) ==
    IF c.pc # "loop" THEN c
    ELSE RunCheck(CheckIteration(c, safety_models, generic_block_msg, generic_safe_msg))

RECURSIVE RunPost(_)
\* postprocess run from c to its end with nothing else running
RunPost(c) ==
    IF c.pc # "loop" THEN c ELSE RunPost(PostIteration(c, postprocessors))

\* the outcome of the call c when it runs alone
Alone(c) ==
    IF c.op = "postprocess"
    THEN RunPost(BeginPost(c.arg, postprocessors))
    ELSE RunCheck(BeginCheck(c.input, safety_models, generic_safe_msg))

\* every ended call of either caller has the outcome it has when run alone
SameAsAlone == \A t \in threads : Ended(call[t]) => call[t] = Alone(call[t])

\* C9: with two callers on one runner, in any interleaving of their calls,
\* no step writes the runner's configuration and every call ends with the
\* outcome it has when run alone.
C9_SharedRunnerIsReadOnly == []SameAsAlone /\ [][runner' = runner]_vars

\* one caller's run_safety_check has ended after two invocations while the
\* other caller is inside the loop of a call with another input
C9_Witness ==
    /\ call["t1"].op = "run_safety_check"
    /\ call["t1"].pc = "returned"
    /\ Len(call["t1"].invoked) = 2
    /\ call["t2"].op = "run_safety_check"
    /\ call["t2"].pc = "loop"
    /\ call["t2"].i = 2
    /\ call["t1"].input # call["t2"].input

\* the entries of the list `entries` that have a prompt the pipeline does not
\* block, by position from 0, among the first n
Good(entries, n) ==
    { k \in 0..(n - 1) :
        /\ ~entries[k + 1].isNone
        /\ ~generate(pipeline, entries[k + 1].str).isNone }

\* the name of the files of entry k
NameOf(k) ==
    IF cfg.batch_input_path # <<>> THEN <<ToString(k)>> ELSE cfg.video_save_name

\* the paths written so far
Written == { files[a].path : a \in DOMAIN files }

\* C8: every entry skipped so far (no prompt, or a null generation result) was
\* logged as critical and wrote nothing, and when demo ends on a batch, files
\* exist for exactly the entries of the batch that have a prompt and a non-null
\* generation result.
C8_OutputsForExactlyTheGoodEntries ==
    /\ criticals = i - Cardinality(Good(prompts, i))
    /\ (pc \in {"done", "raised"} /\ cfg.batch_input_path # <<>>) =>
         Written =
             { SavePath(cfg, k, ext) :
                 k \in Good(batch_file, Len(batch_file)), ext \in {".mp4", ".txt"} }

\* C10: every entry processed so far has written one video file <name>.mp4
\* and then one text file <name>.txt, the name being the entry's position in
\* the input list in batch mode and cfg.video_save_name otherwise; nothing else
\* was written and no path was written twice.
C10_OneVideoOneTextPerEntry ==
    /\ \A a, b \in DOMAIN files : a # b => files[a].path # files[b].path
    /\ Len(files) = 2 * Cardinality(Good(prompts, i))
    /\ \A k \in Good(prompts, i) :
         \E a \in 1..(Len(files) - 1) :
            /\ files[a].kind = "video"
            /\ files[a].path = cfg.video_save_folder \o <<"/">> \o NameOf(k) \o <<".mp4">>
            /\ files[a + 1].kind = "text"
            /\ files[a + 1].path = cfg.video_save_folder \o <<"/">> \o NameOf(k) \o <<".txt">>

\* a batch has ended in which a skipped entry precedes a processed one
C10_Witness ==
    /\ pc = "done"
    /\ cfg.batch_input_path # <<>>
    /\ \E k \in Good(prompts, i) : k > 0 /\ (k - 1) \notin Good(prompts, i)

=============================================================================
